---- MODULE Spec2Model ----
(***************************************************************************)
(* The multi-agent pipeline orchestrator of app/rag.py (run_pipeline) with *)
(* the configuration store of app/config_loader.py, as a state machine.    *)
(*                                                                         *)
(* Python dictionaries are functions whose DOMAIN is the set of keys, so   *)
(* that "key in d", d.get(key, default) and a KeyError are all decided by  *)
(* DOMAIN.  Python strings are strings; an f-string whose slots a claim    *)
(* talks about (a step's prompt) is the record of its slots.               *)
(* One invocation of run_pipeline is followed from the call to the return  *)
(* (pc = "done") or to the exception that leaves it (pc = "raised").  The  *)
(* blocking calls to the model server are split in two: the request is     *)
(* sent by one action and the reply (or the failure) is taken by the next. *)
(***************************************************************************)
EXTENDS Integers, Sequences, FiniteSets, TLC

VARIABLES
    config,          \* config_loader.config: the loaded YAML document
    pc,              \* position of run_pipeline
    pipeline_steps,  \* local: the step list read at line 79
    passages,        \* local: what retrieve returned at line 84
    context,         \* local: the passages' text joined by newlines
    sources,         \* local: the passages' source labels
    sources_md,      \* local: sources rendered as markdown
    ctx,             \* local: the running context dictionary
    steps,           \* local: the log of completed steps
    bound,           \* the names among the locals that are assigned so far
    i,               \* local: the loop index of line 103 (0-based)
    prompt,          \* local: the prompt of the step being executed
    exc,             \* str(e) of the exception in flight, "" when none
    error_msg,       \* local of the outer handler, line 200
    calls,           \* history: the requests sent to the model server, in order,
                     \* each with its outcome: "sent", "returned" or "raised"
    result,          \* the dictionary returned to the caller
    raised,          \* the exception that left run_pipeline, "" when none
    cur,             \* the invocation (1 or 2) whose locals the variables above
                     \* hold: the one that is running
    other,           \* the locals of the invocation that is not running
    loader,          \* config_loader: "unloaded", "loaded", or "failed" when
                     \* ConfigLoader() raised
    lk,              \* the lookup in progress on config_loader, read by read
    rl,              \* the reload_config in progress, and how the last one ended
    LLAMA_INDEX_AVAILABLE,  \* indexer.py: whether the indexing library imported
    docs_dir,        \* the names of the files in the documents directory
    INDEX_DIR,       \* the persisted index: absent, or the documents it holds
    api,             \* the answer of the last file API call or retrieve call
    kwargs,          \* generate: the options the caller passed
    payload,         \* generate: the request body built from them
    source_list,     \* sources_to_markdown: its argument
    markdown         \* sources_to_markdown: its return value

\* the locals of run_pipeline, in the running invocation
locals == <<pc, pipeline_steps, passages, context, sources, sources_md, ctx,
            steps, bound, i, prompt, exc, error_msg, calls, result, raised>>
\* the invocations: which one runs, and the suspended one
sched == <<cur, other>>
\* the configuration store besides config itself
store == <<loader, lk, rl>>
\* what lies outside run_pipeline and the store: the index with the file API,
\* and the arguments and results of generate and sources_to_markdown
outside == <<LLAMA_INDEX_AVAILABLE, docs_dir, INDEX_DIR, api,
             kwargs, payload, source_list, markdown>>

vars == <<config, locals, sched, store, outside>>

-----------------------------------------------------------------------------
(* Bounds of the model *)

\* the longest configured step list
MaxSteps == 3
\* the longest source list given to sources_to_markdown on its own
MaxSources == 3
\* the most passages the retriever returns
MaxPassages == 2

-----------------------------------------------------------------------------
(* Python helpers *)

\* str(KeyError(key)) for a key without quotes in it
KeyErrorStr(key) == "'" \o key \o "'"

\* d.get(key, default)
DictGet(d, key, default) == IF key \in DOMAIN d THEN d[key] ELSE default

\* d.setdefault(key, value): a key that is there keeps its value
DictSetDefault(d, key, value) ==
    [k \in DOMAIN d \cup {key} |-> IF k \in DOMAIN d THEN d[k] ELSE value]
\* d[key] = value
DictSet(d, key, value) ==
    [k \in DOMAIN d \cup {key} |-> IF k = key THEN value ELSE d[k]]

\* "\n".join(lines)
RECURSIVE JoinLines(_)
JoinLines(lines) ==
    IF lines = <<>> THEN ""
    ELSE IF Len(lines) = 1 THEN lines[1]
    ELSE lines[1] \o "\n" \o JoinLines(Tail(lines))

-----------------------------------------------------------------------------
(* The inputs: the query, the configurations, what the retriever returns   *)
(* and what the model server answers.                                      *)

query == "What is quantum entanglement?"

AGENT_MAP == {"decomposer", "critique", "synthesis", "report_formatter"}

\* the agent ids a configuration names; "summarizer" has no class in AGENT_MAP
AgentIds == AGENT_MAP \cup {"summarizer"}

StepName(j) == "Step " \o ToString(j)

\* how the depends_on lists of a configuration are filled:
\*   "none"     every list is empty
\*   "forward"  each step names the step after it (one that has not run
\*              yet), and the last step names a step that is not configured
DependsShapes == {"none", "forward"}

DependsOn(shape, j, n) ==
    CASE shape = "none"    -> <<>>
      [] shape = "forward" ->
            IF j < n THEN <<StepName(j + 1)>> ELSE <<"Unconfigured step">>

\* how the steps of a list are filled in: all required and without
\* dependencies, or none required and each with a dependency
StepVariants ==
    { [shape |-> "none", required |-> TRUE],
      [shape |-> "forward", required |-> FALSE] }

AgentSeqs == UNION {[1..n -> AgentIds] : n \in 0..MaxSteps}

MkSteps(agents, shape, req) ==
    [j \in 1..Len(agents) |->
        [name       |-> StepName(j),
         agent      |-> agents[j],
         required   |-> req,
         depends_on |-> DependsOn(shape, j, Len(agents))]]

AgentSpec(a) ==
    [name          |-> a \o " agent",
     description   |-> "Description of " \o a,
     system_prompt |-> "You are the " \o a,
     parameters    |-> [max_tokens |-> 256]]

AgentSpecNoDescription(a) ==
    [name          |-> a \o " agent",
     system_prompt |-> "You are the " \o a]

\* the agents sections: the complete one, and one without an entry for
\* synthesis whose critique entry has no description
AgentsSections ==
    { [a \in AgentIds |-> AgentSpec(a)],
      [a \in AgentIds \ {"synthesis"} |->
          IF a = "critique" THEN AgentSpecNoDescription(a) ELSE AgentSpec(a)] }

Configs ==
    { [agents |-> [a \in AgentIds |-> AgentSpec(a)]] }      \* no pipeline section
    \cup
    { [pipeline |-> [steps |-> MkSteps(ag, sh, rq)]] :      \* no agents section
        ag \in AgentSeqs \ {<<>>}, sh \in {"none"}, rq \in {TRUE} }
    \cup
    { [pipeline |-> [steps |-> MkSteps(ag, v["shape"], v["required"])],
       agents   |-> sec] :
        ag \in AgentSeqs, v \in StepVariants, sec \in AgentsSections }

\* the passages of the index: (text, metadata["source"])
Passages ==
    { [text |-> "Entanglement links particles.", source |-> "a.pdf"],
      [text |-> "Untitled note.",                source |-> "Unknown"] }

\* what retrieve(query, k) returns: up to MaxPassages distinct passages
RetrievalResults ==
    { ps \in UNION {[1..n -> Passages] : n \in 0..MaxPassages} :
        \A a, b \in 1..Len(ps) : a # b => ps[a] # ps[b] }

\* the reply of the model server to its n-th request
Reply(n) == "reply " \o ToString(n)

\* str(e) of the three exceptions generate raises (ollama_client.py:67-82)
GenerateErrors ==
    { "Ollama request timed out after 120 seconds. Model: gemma3:4b",
      "Could not connect to Ollama server at http://localhost:11434",
      "Ollama request failed: 500 Server Error" }

-----------------------------------------------------------------------------
(* config_loader.py *)

\* ConfigLoader.get_pipeline_steps: "" or str(e) of the KeyError it raises
PipelineStepsError(cfg) ==
    IF "pipeline" \notin DOMAIN cfg
    THEN KeyErrorStr("No pipeline section found in configuration")
    ELSE ""

get_pipeline_steps(cfg) == DictGet(cfg["pipeline"], "steps", <<>>)

\* ConfigLoader.get_agent_config: "" or str(e) of the KeyError it raises
AgentConfigError(cfg, agent_name) ==
    IF "agents" \notin DOMAIN cfg
    THEN KeyErrorStr("No agents section found in configuration")
    ELSE IF agent_name \notin DOMAIN cfg["agents"]
    THEN "\"Agent '" \o agent_name \o "' not found in configuration\""
    ELSE ""

get_agent_config(cfg, agent_name) == cfg["agents"][agent_name]

\* ConfigLoader.get_agent_prompt
get_agent_prompt(cfg, agent_name) ==
    DictGet(get_agent_config(cfg, agent_name), "system_prompt", "")

\* ConfigLoader.get_agent_parameters
get_agent_parameters(cfg, agent_name) ==
    DictGet(get_agent_config(cfg, agent_name), "parameters", <<>>)

-----------------------------------------------------------------------------
(* rag.py: the pure parts of run_pipeline *)

\* a line that tests the source for emptiness only
SourceLineAnyLabel(n, source) ==
    IF source # ""
    THEN ToString(n) \o ". **" \o source \o "**"
    ELSE ToString(n) \o ". Unknown source"

\* one line of sources_to_markdown
SourceLine(n, source) ==
    IF source # "" /\ source # "Unknown"
    THEN ToString(n) \o ". **" \o source \o "**"
    ELSE ToString(n) \o ". Unknown source"

\* the rendering without the early return for the empty list
sources_to_markdownNoGuard(srcs) ==
    JoinLines([n \in 1..Len(srcs) |-> SourceLine(n, srcs[n])])
\* sources_to_markdown, lines 56-68
sources_to_markdown(srcs) ==
    IF srcs = <<>> THEN "No sources available"
    ELSE JoinLines([n \in 1..Len(srcs) |-> SourceLine(n, srcs[n])])

\* the seed of the context dictionary
SeedContext(q, c, md) == [query |-> q, context |-> c, sources_md |-> md]

\* ctx.get(key), without the default: an absent key is rendered as None
CtxGetBare(c, key) == DictGet(c, key, "None")
\* ctx.get(key, 'N/A') as the prompt templates call it
CtxGet(c, key) == DictGet(c, key, "N/A")

\* the chain with the critique branch writing under the decomposer's key
OutputKeyCopied(agent_name) ==
    CASE agent_name = "decomposer"       -> "breakdown"
      [] agent_name = "critique"         -> "breakdown"
      [] agent_name = "synthesis"        -> "synthesis"
      [] agent_name = "report_formatter" -> "final_report"
      [] OTHER                           -> agent_name \o "_output"
\* the generic branch taken for every agent
OutputKeySuffixed(agent_name) == agent_name \o "_output"
\* the output key of each branch of the template chain
OutputKey(agent_name) ==
    CASE agent_name = "decomposer"       -> "breakdown"
      [] agent_name = "critique"         -> "critique"
      [] agent_name = "synthesis"        -> "synthesis"
      [] agent_name = "report_formatter" -> "final_report"
      [] OTHER                           -> agent_name \o "_output"

\* pipeline_config.get_pipeline_prompts: the output key each step declares
DeclaredOutputKey(agent_name) ==
    CASE agent_name = "decomposer"       -> "breakdown"
      [] agent_name = "critique"         -> "critique"
      [] agent_name = "synthesis"        -> "synthesis"
      [] agent_name = "report_formatter" -> "final_report"
      [] OTHER                           -> agent_name \o "_output"

\* pipeline_config.get_pipeline_prompts: the context keys each template reads
DeclaredInputs(agent_name) ==
    CASE agent_name = "decomposer"       -> {"query", "context"}
      [] agent_name = "critique"         -> {"breakdown", "context"}
      [] agent_name = "synthesis"        -> {"breakdown", "critique", "context"}
      [] agent_name = "report_formatter" ->
            {"query", "breakdown", "critique", "synthesis", "sources_md"}
      [] OTHER                           -> {"context"}

\* str(e) of the KeyError of agent_config['description'], "" when it is there
PromptError(agent_config) ==
    IF "description" \notin DOMAIN agent_config
    THEN KeyErrorStr("description") ELSE ""

\* the f-string of each branch, as the record of its slots
BuildPrompt(agent_name, step_name, agent_config, q, c, cx, md) ==
    CASE agent_name = "decomposer" ->
            [template    |-> "decomposer",
             name        |-> step_name,
             description |-> agent_config["description"],
             query       |-> q,
             context     |-> c]
      [] agent_name = "critique" ->
            [template    |-> "critique",
             name        |-> step_name,
             description |-> agent_config["description"],
             breakdown   |-> CtxGet(cx, "breakdown"),
             context     |-> c]
      [] agent_name = "synthesis" ->
            [template    |-> "synthesis",
             name        |-> step_name,
             description |-> agent_config["description"],
             breakdown   |-> CtxGet(cx, "breakdown"),
             critique    |-> CtxGet(cx, "critique"),
             context     |-> c]
      [] agent_name = "report_formatter" ->
            [template    |-> "report_formatter",
             name        |-> step_name,
             description |-> agent_config["description"],
             query       |-> q,
             breakdown   |-> CtxGet(cx, "breakdown"),
             critique    |-> CtxGet(cx, "critique"),
             synthesis   |-> CtxGet(cx, "synthesis"),
             sources_md  |-> md]
      [] OTHER ->
            [template    |-> "generic",
             name        |-> step_name,
             description |-> agent_config["description"],
             context     |-> c]

\* an order that honours depends_on: the steps naming a configured step
\* come after the others
DependencyOrder(ps) ==
    LET Names == {ps[j]["name"] : j \in 1..Len(ps)}
        Waits(s) == \E d \in 1..Len(s["depends_on"]) : s["depends_on"][d] \in Names
    IN  SelectSeq(ps, LAMBDA s : ~Waits(s)) \o SelectSeq(ps, Waits)
\* the order in which the for loop of line 103 takes the steps
ExecutionOrder(ps) == ps

\* the entry numbered with the loop index instead of i + 1
StepInfoZeroBased(step, output, n) ==
    [name           |-> step["name"],
     output         |-> output,
     markdown       |-> TRUE,
     step_number    |-> n - 1,
     agent_name     |-> step["agent"],
     estimated_time |-> DictGet(step, "estimated_time", 2),
     description    |-> DictGet(step, "description", "")]
\* the entry appended to the step log
StepInfo(step, output, n) ==
    [name           |-> step["name"],
     output         |-> output,
     markdown       |-> TRUE,
     step_number    |-> n,
     agent_name     |-> step["agent"],
     estimated_time |-> DictGet(step, "estimated_time", 2),
     description    |-> DictGet(step, "description", "")]

\* an inner handler that re-raises for the required steps only
ReRaiseIfRequired(step) == step["required"]
\* the inner handler ends in "raise step_error" whatever the step is
ReRaise(step) == TRUE

\* a test that also passes for the empty log
HasCompletedAlways(log) == Len(log) >= 0
\* "if steps:" of the outer handler
HasCompleted(log) == log # <<>>

\* the message with the 0-based index of the failing step
ErrorMsgZeroBased(log, e) ==
    "Pipeline failed at step " \o ToString(Len(log)) \o ": " \o e
\* error_msg of the outer handler, line 200
ErrorMsg(log, e) ==
    "Pipeline failed at step " \o ToString(Len(log) + 1) \o ": " \o e

\* partial_context and fallback_prompt of the outer handler
RECURSIVE StepOutputs(_)
StepOutputs(log) ==
    IF log = <<>> THEN ""
    ELSE "\n" \o log[1]["name"] \o ":\n" \o log[1]["output"] \o "\n"
         \o StepOutputs(Tail(log))

FallbackPrompt(q, c, log) ==
    "Based on the following completed research steps, provide a summary of what was accomplished:\n\n"
    \o "Query: " \o q \o "\n\nContext: " \o c \o "\n\n" \o StepOutputs(log)

FallbackSystemPrompt ==
    "You are a research assistant. Provide a clear summary of the completed research steps."

\* the three dictionaries run_pipeline returns, each preceded by a variant
\* with one field wrong (the step log or the sources left out, the partial
\* flag set, the error left out).  The answers are written without the glyph
\* that opens them in the source, and execution_summary, which only copies
\* len(steps) and the model name, is left out.
SuccessResultNoLog(cx, srcs, log) ==
    [answer            |-> DictGet(cx, "final_report",
                              "Pipeline completed but no final report generated"),
     sources           |-> srcs,
     debug_steps       |-> <<>>,
     pipeline_complete |-> TRUE,
     total_steps       |-> Len(log)]
SuccessResult(cx, srcs, log) ==
    [answer            |-> DictGet(cx, "final_report",
                              "Pipeline completed but no final report generated"),
     sources           |-> srcs,
     debug_steps       |-> log,
     pipeline_complete |-> TRUE,
     total_steps       |-> Len(log)]

PartialResultNoError(response, srcs, log, msg) ==
    [answer            |-> "Pipeline partially completed. Here's what was accomplished:\n\n"
                           \o response,
     sources           |-> srcs,
     debug_steps       |-> log,
     pipeline_complete |-> FALSE,
     partial_success   |-> TRUE,
     total_steps       |-> Len(log)]
PartialResultNoLog(response, srcs, log, msg) ==
    [answer            |-> "Pipeline partially completed. Here's what was accomplished:\n\n"
                           \o response,
     sources           |-> srcs,
     debug_steps       |-> <<>>,
     pipeline_complete |-> FALSE,
     partial_success   |-> TRUE,
     error             |-> msg,
     total_steps       |-> Len(log)]
PartialResult(response, srcs, log, msg) ==
    [answer            |-> "Pipeline partially completed. Here's what was accomplished:\n\n"
                           \o response,
     sources           |-> srcs,
     debug_steps       |-> log,
     pipeline_complete |-> FALSE,
     partial_success   |-> TRUE,
     error             |-> msg,
     total_steps       |-> Len(log)]

FailureResultNoSources(srcs, msg) ==
    [answer            |-> "Pipeline failed completely: " \o msg,
     sources           |-> <<>>,
     debug_steps       |-> <<>>,
     pipeline_complete |-> FALSE,
     partial_success   |-> FALSE,
     error             |-> msg,
     total_steps       |-> 0]
FailureResultPartialFlag(srcs, msg) ==
    [answer            |-> "Pipeline failed completely: " \o msg,
     sources           |-> srcs,
     debug_steps       |-> <<>>,
     pipeline_complete |-> FALSE,
     partial_success   |-> TRUE,
     error             |-> msg,
     total_steps       |-> 0]
FailureResult(srcs, msg) ==
    [answer            |-> "Pipeline failed completely: " \o msg,
     sources           |-> srcs,
     debug_steps       |-> <<>>,
     pipeline_complete |-> FALSE,
     partial_success   |-> FALSE,
     error             |-> msg,
     total_steps       |-> 0]

-----------------------------------------------------------------------------
(* The state machine *)

NoResult == [returned |-> FALSE]

\* the locals of an invocation at the call of run_pipeline
NewFrame ==
    [pc             |-> "start",
     pipeline_steps |-> <<>>,
     passages       |-> <<>>,
     context        |-> "",
     sources        |-> <<>>,
     sources_md     |-> "",
     ctx            |-> <<>>,
     steps          |-> <<>>,
     bound          |-> {},
     i              |-> 0,
     prompt         |-> <<>>,
     exc            |-> "",
     error_msg      |-> "",
     calls          |-> <<>>,
     result         |-> NoResult,
     raised         |-> ""]

\* no lookup, no reload in progress
NoLookup == [pc |-> "idle"]
NoReload == [pc |-> "idle", outcome |-> "none"]

\* no index is persisted; no file API call was answered
NoIndex == [exists |-> FALSE]
NoResponse == [op |-> "none"]

\* the library imported, the documents directory is empty, nothing is indexed,
\* and neither generate nor sources_to_markdown has been called
InitOutside ==
    /\ LLAMA_INDEX_AVAILABLE = TRUE
    /\ docs_dir = {}
    /\ INDEX_DIR = NoIndex
    /\ api = NoResponse
    /\ kwargs = <<>>
    /\ payload = <<>>
    /\ source_list = <<>>
    /\ markdown = ""

\* run_pipeline is called
InitLocals ==
    /\ pc = "start"
    /\ pipeline_steps = <<>>
    /\ passages = <<>>
    /\ context = ""
    /\ sources = <<>>
    /\ sources_md = ""
    /\ ctx = <<>>
    /\ steps = <<>>
    /\ bound = {}
    /\ i = 0
    /\ prompt = <<>>
    /\ exc = ""
    /\ error_msg = ""
    /\ calls = <<>>
    /\ result = NoResult
    /\ raised = ""
    /\ cur = 1
    /\ other = NewFrame

\* the module is imported, config_loader holds a configuration, and
\* run_pipeline is called
Init ==
    /\ config \in Configs
    /\ InitLocals
    /\ loader = "loaded"
    /\ lk = NoLookup
    /\ rl = NoReload
    /\ InitOutside

\* lines 75-80: read the step list from the configuration
LoadConfig ==
    /\ pc = "start"
    /\ IF PipelineStepsError(config) # ""
       THEN /\ exc' = PipelineStepsError(config)
            /\ pc' = "except"
            /\ UNCHANGED <<pipeline_steps, bound>>
       ELSE /\ pipeline_steps' = get_pipeline_steps(config)
            /\ bound' = bound \cup {"pipeline_steps"}
            /\ pc' = "retrieve"
            /\ UNCHANGED exc
    /\ UNCHANGED <<config, sched, store, outside>>
    /\ UNCHANGED <<passages, context, sources, sources_md, ctx, steps,
                   i, prompt, error_msg, calls, result, raised>>

\* lines 82-101: retrieve, seed the context, start the step log
Retrieve ==
    /\ pc = "retrieve"
    /\ passages' \in RetrievalResults
    /\ context' = JoinLines([n \in 1..Len(passages') |-> passages'[n]["text"]])
    /\ sources' = [n \in 1..Len(passages') |-> passages'[n]["source"]]
    /\ sources_md' = sources_to_markdown(sources')
    /\ ctx' = SeedContext(query, context', sources_md')
    /\ steps' = <<>>
    /\ bound' = bound \cup {"passages", "context", "sources", "sources_md",
                           "ctx", "steps"}
    /\ i' = 0
    /\ pc' = "loop"
    /\ UNCHANGED <<config, sched, store, outside>>
    /\ UNCHANGED <<pipeline_steps, prompt, exc, error_msg, calls,
                   result, raised>>

\* the step the loop is at
CurrentStep == ExecutionOrder(pipeline_steps)[i + 1]

\* generate sends its request again after one that failed
PostTwice(log, request) ==
    Append(Append(log, [request EXCEPT !["outcome"] = "raised"]), request)

\* ollama_client.py:46-50: generate sends one request to the model server
Post(log, request) == Append(log, request)

\* the outcome of the request in flight
Outcome(log, o) == [log EXCEPT ![Len(log)]["outcome"] = o]

\* an inner handler that runs the failed step again
StepFailsRetry(e) ==
    /\ exc' = exc
    /\ pc' = "loop"
    /\ i' = i

\* the inner handler, lines 165-173, for an exception e of the current step
StepFails(e) ==
    IF ReRaise(CurrentStep)
    THEN /\ exc' = e
         /\ pc' = "except"
         /\ i' = i
    ELSE /\ exc' = exc
         /\ pc' = "loop"
         /\ i' = i + 1

\* lines 103-136: resolve the step's agent and build its prompt
StepPrepare ==
    /\ pc = "loop"
    /\ i < Len(pipeline_steps)
    /\ LET agent_name == CurrentStep["agent"]
       IN  IF agent_name \notin AGENT_MAP
           THEN StepFails(KeyErrorStr(agent_name)) /\ UNCHANGED prompt
           ELSE IF AgentConfigError(config, agent_name) # ""
           THEN StepFails(AgentConfigError(config, agent_name)) /\ UNCHANGED prompt
           ELSE IF PromptError(get_agent_config(config, agent_name)) # ""
           THEN StepFails(PromptError(get_agent_config(config, agent_name)))
                /\ UNCHANGED prompt
           ELSE /\ prompt' = BuildPrompt(agent_name, CurrentStep["name"],
                                         get_agent_config(config, agent_name),
                                         query, context, ctx, sources_md)
                /\ pc' = "run"
                /\ UNCHANGED <<exc, i>>
    /\ UNCHANGED <<config, sched, store, outside>>
    /\ UNCHANGED <<pipeline_steps, passages, context, sources,
                   sources_md, ctx, steps, bound, error_msg, calls, result, raised>>

\* line 142 and <Agent>.run: look the system prompt up, send the request
AgentRun ==
    /\ pc = "run"
    /\ LET agent_name == CurrentStep["agent"]
       IN  IF AgentConfigError(config, agent_name) # ""
           THEN StepFails(AgentConfigError(config, agent_name)) /\ UNCHANGED calls
           ELSE /\ calls' = Post(calls,
                        [via           |-> agent_name,
                         step_number   |-> i + 1,
                         step_name     |-> CurrentStep["name"],
                         system_prompt |-> get_agent_prompt(config, agent_name),
                         parameters    |-> get_agent_parameters(config, agent_name),
                         prompt        |-> prompt,
                         outcome       |-> "sent"])
                /\ pc' = "calling"
                /\ UNCHANGED <<exc, i>>
    /\ UNCHANGED <<config, sched, store, outside>>
    /\ UNCHANGED <<pipeline_steps, passages, context, sources,
                   sources_md, ctx, steps, bound, prompt, error_msg, result, raised>>

\* lines 142-163: the agent call returns and the step completes
AgentReturns ==
    /\ pc = "calling"
    /\ calls' = Outcome(calls, "returned")
    /\ LET output == Reply(Len(calls))
       IN  /\ ctx' = DictSet(ctx, OutputKey(CurrentStep["agent"]), output)
           /\ steps' = Append(steps, StepInfo(CurrentStep, output, i + 1))
    /\ i' = i + 1
    /\ pc' = "loop"
    /\ UNCHANGED <<config, sched, store, outside>>
    /\ UNCHANGED <<pipeline_steps, passages, context, sources,
                   sources_md, bound, prompt, exc, error_msg, result, raised>>

\* line 142: the agent call raises
AgentFails ==
    /\ pc = "calling"
    /\ calls' = Outcome(calls, "raised")
    /\ \E e \in GenerateErrors : StepFails(e)
    /\ UNCHANGED <<config, sched, store, outside>>
    /\ UNCHANGED <<pipeline_steps, passages, context, sources,
                   sources_md, ctx, steps, bound, prompt, error_msg, result, raised>>

\* lines 175-190: every step completed
ReturnSuccess ==
    /\ pc = "loop"
    /\ i >= Len(pipeline_steps)
    /\ result' = SuccessResult(ctx, sources, steps)
    /\ pc' = "done"
    /\ UNCHANGED <<config, sched, store, outside>>
    /\ UNCHANGED <<pipeline_steps, passages, context, sources,
                   sources_md, ctx, steps, bound, i, prompt, exc, error_msg, calls, raised>>

\* lines 192-214: the outer handler, up to the fallback request
HandleFailure ==
    /\ pc = "except"
    /\ IF "steps" \notin bound
       THEN \* line 200 reads steps before line 99 assigned it
            /\ raised' = "UnboundLocalError"
            /\ pc' = "raised"
            /\ UNCHANGED <<error_msg, calls, result>>
       ELSE /\ error_msg' = ErrorMsg(steps, exc)
            /\ raised' = raised
            /\ IF HasCompleted(steps)
               THEN /\ calls' = Post(calls,
                            [via           |-> "fallback",
                             system_prompt |-> FallbackSystemPrompt,
                             parameters    |-> <<>>,
                             prompt        |-> FallbackPrompt(query, context, steps),
                             outcome       |-> "sent"])
                    /\ pc' = "fallback"
                    /\ UNCHANGED result
               ELSE /\ result' = FailureResult(sources, error_msg')
                    /\ pc' = "done"
                    /\ UNCHANGED calls
    /\ UNCHANGED <<config, sched, store, outside>>
    /\ UNCHANGED <<pipeline_steps, passages, context, sources,
                   sources_md, ctx, steps, bound, i, prompt, exc>>

\* lines 214-225: the fallback call returns
FallbackReturns ==
    /\ pc = "fallback"
    /\ calls' = Outcome(calls, "returned")
    /\ result' = PartialResult(Reply(Len(calls)), sources, steps, error_msg)
    /\ pc' = "done"
    /\ UNCHANGED <<config, sched, store, outside>>
    /\ UNCHANGED <<pipeline_steps, passages, context, sources,
                   sources_md, ctx, steps, bound, i, prompt, exc, error_msg, raised>>

\* lines 226-239: the fallback call raises, its error is dropped
FallbackFails ==
    /\ pc = "fallback"
    /\ calls' = Outcome(calls, "raised")
    /\ result' = FailureResult(sources, error_msg)
    /\ pc' = "done"
    /\ UNCHANGED <<config, sched, store, outside>>
    /\ UNCHANGED <<pipeline_steps, passages, context, sources,
                   sources_md, ctx, steps, bound, i, prompt, exc, error_msg, raised>>

Next ==
    \/ LoadConfig
    \/ Retrieve
    \/ StepPrepare
    \/ AgentRun
    \/ AgentReturns
    \/ AgentFails
    \/ ReturnSuccess
    \/ HandleFailure
    \/ FallbackReturns
    \/ FallbackFails

Spec == Init /\ [][Next]_vars

\* run_pipeline reads neither depends_on nor required to decide what runs
\* next, so the configurations that leave both at their defaults stand for
\* the others
InitLive ==
    /\ Init
    /\ PipelineStepsError(config) = "" =>
          \A n \in 1..Len(get_pipeline_steps(config)) :
              /\ get_pipeline_steps(config)[n]["required"]
              /\ get_pipeline_steps(config)[n]["depends_on"] = <<>>

\* the invocation keeps running: the thread is scheduled, and every call to
\* the retriever and to the model server returns or fails in the end
SpecLive == InitLive /\ [][Next]_vars /\ WF_vars(Next)

-----------------------------------------------------------------------------
(* Two invocations of run_pipeline.  Each call of a Python function has    *)
(* its own locals; the thread of one invocation runs while the other is    *)
(* suspended, and the threads may be switched between any two steps.       *)

\* the locals of the running invocation
Frame ==
    [pc             |-> pc,
     pipeline_steps |-> pipeline_steps,
     passages       |-> passages,
     context        |-> context,
     sources        |-> sources,
     sources_md     |-> sources_md,
     ctx            |-> ctx,
     steps          |-> steps,
     bound          |-> bound,
     i              |-> i,
     prompt         |-> prompt,
     exc            |-> exc,
     error_msg      |-> error_msg,
     calls          |-> calls,
     result         |-> result,
     raised         |-> raised]

\* ctx and steps kept at module level: the resumed invocation finds those of
\* the invocation that ran last
ResumeSharedContext(saved, running) ==
    [saved EXCEPT !["ctx"] = running["ctx"], !["steps"] = running["steps"]]
\* lines 90-99: ctx and steps, like every name run_pipeline assigns, are
\* locals of the call: the resumed invocation finds its own
Resume(saved, running) == saved

\* the running invocation is suspended and the other one resumed
Switch ==
    /\ other' = Frame
    /\ cur' = 3 - cur
    /\ LET f == Resume(other, Frame)
       IN  /\ pc' = f["pc"]
           /\ pipeline_steps' = f["pipeline_steps"]
           /\ passages' = f["passages"]
           /\ context' = f["context"]
           /\ sources' = f["sources"]
           /\ sources_md' = f["sources_md"]
           /\ ctx' = f["ctx"]
           /\ steps' = f["steps"]
           /\ bound' = f["bound"]
           /\ i' = f["i"]
           /\ prompt' = f["prompt"]
           /\ exc' = f["exc"]
           /\ error_msg' = f["error_msg"]
           /\ calls' = f["calls"]
           /\ result' = f["result"]
           /\ raised' = f["raised"]
    /\ UNCHANGED <<config, store, outside>>

\* the configurations the two invocations run under: two steps, each of the
\* decomposer or the report_formatter, and the complete agents section
TwoConfigs ==
    { [pipeline |-> [steps |-> MkSteps(ag, "none", TRUE)],
       agents   |-> [a \in AgentIds |-> AgentSpec(a)]] :
        ag \in [1..2 -> {"decomposer", "report_formatter"}] }

InitTwo == Init /\ config \in TwoConfigs

NextTwo ==
    \/ LoadConfig
    \/ Retrieve
    \/ StepPrepare
    \/ AgentRun
    \/ AgentReturns
    \/ AgentFails
    \/ ReturnSuccess
    \/ HandleFailure
    \/ FallbackReturns
    \/ FallbackFails
    \/ Switch

SpecTwo == InitTwo /\ [][NextTwo]_vars

-----------------------------------------------------------------------------
(* The configuration store on its own: config_loader is constructed from   *)
(* the configuration file, then lookups and reloads run on it.  A lookup   *)
(* reads config_loader.config once per line of its method and a reload may *)
(* assign it between two of those reads.                                   *)

\* the documents the configuration file may hold
FullDoc ==
    [pipeline |-> [steps |-> MkSteps(<<"decomposer", "critique">>, "none", TRUE)],
     agents   |-> [a \in AgentIds |-> AgentSpec(a)]]

\* another step list; no synthesis agent, another critique entry
ChangedDoc ==
    [pipeline |-> [steps |-> MkSteps(<<"critique">>, "none", TRUE)],
     agents   |-> [a \in AgentIds \ {"synthesis"} |->
                     IF a = "critique" THEN AgentSpecNoDescription(a)
                     ELSE AgentSpec(a)]]

NoAgentsDoc ==
    [pipeline |-> [steps |-> MkSteps(<<"decomposer", "critique">>, "none", TRUE)]]

NoPipelineDoc == [agents |-> [a \in AgentIds |-> AgentSpec(a)]]

\* the step list of FullDoc with a critique agent that was tuned again
RetunedDoc ==
    [pipeline |-> [steps |-> MkSteps(<<"decomposer", "critique">>, "none", TRUE)],
     agents   |-> [a \in AgentIds |->
                     IF a = "critique"
                     THEN [name          |-> "critique agent",
                           description   |-> "Stricter critique",
                           system_prompt |-> "You are the strict critique",
                           parameters    |-> [max_tokens |-> 128]]
                     ELSE AgentSpec(a)]]

StoreDocs == {FullDoc, ChangedDoc, NoAgentsDoc, NoPipelineDoc, RetunedDoc}

\* the states of the configuration file: not there, there but not readable,
\* not YAML, or YAML for one of the documents
ConfigFiles ==
    {[state |-> "missing"], [state |-> "unreadable"], [state |-> "invalid"]}
    \cup {[state |-> "ok", doc |-> d] : d \in StoreDocs}

\* a loader that takes a file that is not YAML for an empty document
load_configLenient(f) ==
    CASE f["state"] = "missing"    -> [error |-> "FileNotFoundError"]
      [] f["state"] = "unreadable" -> [error |-> "PermissionError"]
      [] f["state"] = "invalid"    -> [error |-> "", config |-> [k \in {} |-> k]]
      [] OTHER                     -> [error |-> "", config |-> f["doc"]]
\* ConfigLoader._load_config: the document, or the exception of open or of
\* the parser
load_config(f) ==
    CASE f["state"] = "missing"    -> [error |-> "FileNotFoundError"]
      [] f["state"] = "unreadable" -> [error |-> "PermissionError"]
      [] f["state"] = "invalid"    -> [error |-> "ValueError"]
      [] OTHER                     -> [error |-> "", config |-> f["doc"]]

\* config_loader before ConfigLoader() has assigned self.config
NoConfig == [unset |-> TRUE]

\* the lookups followed: ConfigLoader.get_pipeline_steps and
\* ConfigLoader.get_agent_config for two agents
Lookups ==
    {[name |-> "get_pipeline_steps"]}
    \cup {[name |-> "get_agent_config", agent_name |-> a] :
             a \in {"critique", "synthesis"}}

\* the section a lookup reads
Section(op) == IF op["name"] = "get_pipeline_steps" THEN "pipeline" ELSE "agents"

\* the lookup l raises KeyError(message), or returns value
Raises(l, message) ==
    [pc |-> "done", op |-> l["op"], seen |-> l["seen"],
     answer |-> [raised |-> "KeyError", message |-> message]]
Returns(l, value) ==
    [pc |-> "done", op |-> l["op"], seen |-> l["seen"],
     answer |-> [value |-> value]]

InitStore ==
    /\ config = NoConfig
    /\ InitLocals
    /\ loader = "unloaded"
    /\ lk = NoLookup
    /\ rl = NoReload
    /\ InitOutside

\* config_loader = ConfigLoader(), line 156, with __init__ of lines 14-32
Construct ==
    /\ loader = "unloaded"
    /\ \E f \in ConfigFiles :
          IF load_config(f)["error"] # ""
          THEN loader' = "failed" /\ UNCHANGED config
          ELSE loader' = "loaded" /\ config' = load_config(f)["config"]
    /\ UNCHANGED <<locals, sched, outside, lk, rl>>

\* a lookup is called; seen is the history of the configurations that
\* config_loader.config holds while the lookup runs
LookupStart ==
    /\ loader = "loaded"
    /\ lk["pc"] \in {"idle", "done"}
    /\ \E op \in Lookups : lk' = [pc |-> "section", op |-> op, seen |-> {config}]
    /\ UNCHANGED <<config, locals, sched, outside, loader, rl>>

\* lines 45-46 and 65-66: the test for the section
LookupCheckSection ==
    /\ lk["pc"] = "section"
    /\ lk' = IF Section(lk["op"]) \notin DOMAIN config
             THEN Raises(lk, "'No " \o Section(lk["op"])
                             \o " section found in configuration'")
             ELSE [lk EXCEPT !["pc"] =
                      IF lk["op"]["name"] = "get_agent_config"
                      THEN "name" ELSE "fetch"]
    /\ UNCHANGED <<config, locals, sched, outside, loader, rl>>

\* lines 48-49: the test for the agent
LookupCheckName ==
    /\ lk["pc"] = "name"
    /\ lk' = IF "agents" \notin DOMAIN config
             THEN Raises(lk, KeyErrorStr("agents"))
             ELSE IF lk["op"]["agent_name"] \notin DOMAIN config["agents"]
             THEN Raises(lk, "\"Agent '" \o lk["op"]["agent_name"]
                             \o "' not found in configuration\"")
             ELSE [lk EXCEPT !["pc"] = "fetch"]
    /\ UNCHANGED <<config, locals, sched, outside, loader, rl>>

\* lines 51 and 68: the return
LookupFetch ==
    /\ lk["pc"] = "fetch"
    /\ lk' = IF Section(lk["op"]) \notin DOMAIN config
             THEN Raises(lk, KeyErrorStr(Section(lk["op"])))
             ELSE IF lk["op"]["name"] = "get_pipeline_steps"
             THEN Returns(lk, DictGet(config["pipeline"], "steps", <<>>))
             ELSE IF lk["op"]["agent_name"] \notin DOMAIN config["agents"]
             THEN Raises(lk, KeyErrorStr(lk["op"]["agent_name"]))
             ELSE Returns(lk, config["agents"][lk["op"]["agent_name"]])
    /\ UNCHANGED <<config, locals, sched, outside, loader, rl>>

\* reload_config, line 107, right-hand side: the file is read and parsed
ReloadLoad ==
    /\ loader = "loaded"
    /\ rl["pc"] = "idle"
    /\ \E f \in ConfigFiles :
          rl' = IF load_config(f)["error"] # ""
                THEN [pc |-> "idle", outcome |-> "raised", file |-> f,
                      before |-> config, error |-> load_config(f)["error"]]
                ELSE [pc |-> "assign", outcome |-> "none", file |-> f,
                      before |-> config, loaded |-> load_config(f)["config"]]
    /\ UNCHANGED <<config, locals, sched, outside, loader, lk>>

\* reload_config, line 107, the assignment to self.config
ReloadAssign ==
    /\ rl["pc"] = "assign"
    /\ config' = rl["loaded"]
    /\ rl' = [rl EXCEPT !["pc"] = "idle", !["outcome"] = "done"]
    /\ lk' = IF lk["pc"] \in {"idle", "done"} THEN lk
             ELSE [lk EXCEPT !["seen"] = @ \cup {config'}]
    /\ UNCHANGED <<locals, sched, outside, loader>>

NextStore ==
    \/ Construct
    \/ LookupStart
    \/ LookupCheckSection
    \/ LookupCheckName
    \/ LookupFetch
    \/ ReloadLoad
    \/ ReloadAssign

SpecConfig == InitStore /\ [][NextStore]_vars

-----------------------------------------------------------------------------
(* One invocation of run_pipeline while the configuration is reloaded: the *)
(* reload of lines 105-107 runs in another thread and may assign           *)
(* config_loader.config between any two steps of the invocation.           *)

InitReload ==
    /\ config \in StoreDocs
    /\ InitLocals
    /\ loader = "loaded"
    /\ lk = NoLookup
    /\ rl = NoReload
    /\ InitOutside

NextReload ==
    \/ Next
    \/ ReloadLoad
    \/ ReloadAssign

SpecReload == InitReload /\ [][NextReload]_vars

-----------------------------------------------------------------------------
(* The index and the file API: app/indexer.py, the upload, delete and      *)
(* rebuild handlers of app/main.py and rebuild_index of app/rag.py.  The   *)
(* documents directory is the set of its file names; an index is the set   *)
(* of the documents it was built from.  Whether reading and embedding the  *)
(* documents works, whether the persisted index loads and whether the      *)
(* retriever's call works are choices of the environment, made per call.   *)

\* the files the API is called with; every one has an allowed extension
DocFiles == {"a.pdf", "b.txt"}

\* Python's None
None == [none |-> TRUE]

\* the documents of a persisted index
IndexDocs(persisted) == IF persisted["exists"] THEN persisted["docs"] ELSE {}

\* indexer.py:46-137, the return value: the index built from the named files
\* that exist, or from every file of the directory when none is named; None
\* when the library is missing, when there is nothing to index, or when
\* anything raised (works = FALSE)
build_index(available, dir, specific_files, works) ==
    LET docs == IF specific_files # {} THEN specific_files \cap dir ELSE dir
    IN  IF ~available THEN None
        ELSE IF docs = {} THEN None
        ELSE IF ~works THEN None
        ELSE [docs |-> docs]

\* indexer.py:128: a built index is persisted over whatever INDEX_DIR held
Persist(persisted, built) ==
    IF built = None THEN persisted
    ELSE [exists |-> TRUE, docs |-> built["docs"]]

\* indexer.py:185-216: the index loaded from INDEX_DIR, or else a rebuilt
\* one, with what INDEX_DIR holds afterwards
get_index(available, persisted, dir, loads, works) ==
    IF ~available
    THEN [index |-> None, persisted |-> persisted]
    ELSE IF persisted["exists"] /\ loads
    THEN [index |-> [docs |-> persisted["docs"]], persisted |-> persisted]
    ELSE LET built == build_index(available, dir, {}, works)
         IN  [index |-> built, persisted |-> Persist(persisted, built)]

\* what the retriever of an index may find for a query: up to MaxPassages
\* passages of the index's documents, or the call raises
RetrieverOutcomes ==
    {[raises |-> TRUE]} \cup
    {[raises |-> FALSE, passages |-> ps] :
        ps \in UNION {[1..n -> [source : DocFiles]] : n \in 0..MaxPassages}}

\* the passages of a retriever outcome that an index can give
FromIndex(index, found) ==
    IF \A n \in 1..Len(found["passages"]) :
          found["passages"][n]["source"] \in index["docs"]
    THEN found["passages"] ELSE <<>>

\* indexer.py:218-237 without the try of line 224
retrieveUnguarded(available, persisted, dir, loads, works, found) ==
    LET got == get_index(available, persisted, dir, loads, works)
    IN  IF ~available
        THEN [passages |-> <<>>, raised |-> "", persisted |-> persisted]
        ELSE IF got["index"] = None
        THEN [passages |-> <<>>, raised |-> "", persisted |-> got["persisted"]]
        ELSE IF found["raises"]
        THEN [passages |-> <<>>, raised |-> "Exception",
              persisted |-> got["persisted"]]
        ELSE [passages |-> FromIndex(got["index"], found), raised |-> "",
              persisted |-> got["persisted"]]

\* indexer.py:218-237: what retrieve returns, the exception that leaves it,
\* and what INDEX_DIR holds afterwards
retrieve(available, persisted, dir, loads, works, found) ==
    LET got == get_index(available, persisted, dir, loads, works)
    IN  IF ~available
        THEN [passages |-> <<>>, raised |-> "", persisted |-> persisted]
        ELSE IF got["index"] = None
        THEN [passages |-> <<>>, raised |-> "", persisted |-> got["persisted"]]
        ELSE IF found["raises"]
        THEN [passages |-> <<>>, raised |-> "", persisted |-> got["persisted"]]
        ELSE [passages |-> FromIndex(got["index"], found), raised |-> "",
              persisted |-> got["persisted"]]

\* indexer.py:139-183: the return value and what INDEX_DIR holds afterwards;
\* dir still holds filename when main.py calls it (line 255 before line 262)
remove_document_from_index(filename, available, persisted, dir, loads, works) ==
    LET got == get_index(available, persisted, dir, loads, works)
    IN  IF ~available
        THEN [result |-> FALSE, persisted |-> persisted]
        ELSE IF got["index"] = None
        THEN [result |-> FALSE, persisted |-> got["persisted"]]
        ELSE IF dir \ {filename} = {}
        THEN [result |-> TRUE, persisted |-> NoIndex]
        ELSE [result |-> TRUE,
              persisted |-> Persist(got["persisted"],
                                    build_index(available, dir, {}, works))]

\* the file API is started on a documents directory that was never indexed
InitIndex ==
    /\ config = NoConfig
    /\ InitLocals
    /\ loader = "unloaded"
    /\ lk = NoLookup
    /\ rl = NoReload
    /\ LLAMA_INDEX_AVAILABLE \in BOOLEAN
    /\ docs_dir \in SUBSET DocFiles
    /\ INDEX_DIR = NoIndex
    /\ api = NoResponse
    /\ kwargs = <<>>
    /\ payload = <<>>
    /\ source_list = <<>>
    /\ markdown = ""

\* main.py:189-224: POST /api/upload saves the file, then indexes it; the
\* answer is kept with what build_index returned and what was indexed before
upload_file ==
    \E filename \in DocFiles, works \in BOOLEAN :
        LET saved == docs_dir \cup {filename}
            built == build_index(LLAMA_INDEX_AVAILABLE, saved, {filename},
                                 works)
        IN  /\ docs_dir' = saved
            /\ INDEX_DIR' = Persist(INDEX_DIR, built)
            /\ api' = [op |-> "upload", filename |-> filename,
                       response |-> [success |-> TRUE, processed |-> TRUE],
                       returned |-> built, before |-> IndexDocs(INDEX_DIR)]
            /\ UNCHANGED <<config, locals, sched, store>>
            /\ UNCHANGED <<LLAMA_INDEX_AVAILABLE, kwargs, payload,
                           source_list, markdown>>

\* main.py:243-275: DELETE /api/files/{filename} answers 404 for a file that
\* is not there; otherwise it updates the index, then removes the file
delete_file ==
    \E filename \in DocFiles, loads \in BOOLEAN, works \in BOOLEAN :
        LET removed == remove_document_from_index(filename,
                           LLAMA_INDEX_AVAILABLE, INDEX_DIR, docs_dir,
                           loads, works)
        IN  /\ IF filename \notin docs_dir
               THEN /\ api' = [op |-> "delete", filename |-> filename,
                               response |-> [status |-> 404]]
                    /\ UNCHANGED <<docs_dir, INDEX_DIR>>
               ELSE /\ INDEX_DIR' = removed["persisted"]
                    /\ docs_dir' = docs_dir \ {filename}
                    /\ api' = [op |-> "delete", filename |-> filename,
                               response |-> [success |-> TRUE,
                                             index_updated |-> TRUE],
                               returned |-> removed["result"],
                               before |-> IndexDocs(INDEX_DIR)]
            /\ UNCHANGED <<config, locals, sched, store>>
            /\ UNCHANGED <<LLAMA_INDEX_AVAILABLE, kwargs, payload,
                           source_list, markdown>>

\* main.py:277-290 with rag.py:30-46: POST /api/rebuild-knowledge-base
rebuild_index ==
    \E works \in BOOLEAN :
        LET built == build_index(LLAMA_INDEX_AVAILABLE, docs_dir, {}, works)
        IN  /\ INDEX_DIR' = Persist(INDEX_DIR, built)
            /\ api' = [op |-> "rebuild", response |-> [success |-> TRUE],
                       returned |-> built, before |-> IndexDocs(INDEX_DIR)]
            /\ UNCHANGED <<config, locals, sched, store>>
            /\ UNCHANGED <<LLAMA_INDEX_AVAILABLE, docs_dir, kwargs, payload,
                           source_list, markdown>>

\* retrieve(query, k) is called; the answer is kept with the file API call
\* that came before it
RetrieveCall ==
    \E loads \in BOOLEAN, works \in BOOLEAN, found \in RetrieverOutcomes :
        LET got == retrieve(LLAMA_INDEX_AVAILABLE, INDEX_DIR, docs_dir,
                            loads, works, found)
        IN  /\ INDEX_DIR' = got["persisted"]
            /\ api' = [op |-> "retrieve", passages |-> got["passages"],
                       raised |-> got["raised"],
                       loads |-> loads, works |-> works, found |-> found,
                       before |-> INDEX_DIR,
                       after |-> [op |-> api["op"],
                                  filename |-> IF "filename" \in DOMAIN api
                                               THEN api["filename"] ELSE ""]]
            /\ UNCHANGED <<config, locals, sched, store>>
            /\ UNCHANGED <<LLAMA_INDEX_AVAILABLE, docs_dir, kwargs, payload,
                           source_list, markdown>>

NextIndex ==
    \/ upload_file
    \/ delete_file
    \/ rebuild_index
    \/ RetrieveCall

SpecIndex == InitIndex /\ [][NextIndex]_vars

-----------------------------------------------------------------------------
(* generate of app/ollama_client.py: the request payload built from the    *)
(* keyword arguments.  A value is the text Python prints for it.           *)

\* the generation options with their defaults, lines 21-27
OptionDefaults ==
    [num_predict    |-> "512",
     top_k          |-> "40",
     top_p          |-> "0.9",
     temperature    |-> "0.7",
     repeat_penalty |-> "1.1",
     num_ctx        |-> "2048",
     stop           |-> "['\\n\\n\\n']"]

Options == DOMAIN OptionDefaults

\* the value of its own that a caller passes for a keyword; it is no default
CallerValue(key) == IF key = "max_tokens" THEN "100" ELSE "value of " \o key

\* the keyword arguments of a call: any of the options, max_tokens and
\* timeout, each with the caller's value or with None
Kwargs ==
    { [k \in keys |-> IF k \in nones THEN "None" ELSE CallerValue(k)] :
        keys \in SUBSET (Options \cup {"max_tokens", "timeout"}),
        nones \in SUBSET {"num_predict", "max_tokens", "temperature"} }

\* a payload whose prediction-length cap ignores max_tokens
RequestPayloadNoAlias(prompt_text, system_prompt, model, kw) ==
    LET base == [k \in {"model", "prompt", "stream"} \cup Options |->
                    CASE k = "model"  -> model
                      [] k = "prompt" -> system_prompt \o "\n" \o prompt_text
                      [] k = "stream" -> "False"
                      [] OTHER        -> DictGet(kw, k, OptionDefaults[k])]
        given == {k \in DOMAIN kw : kw[k] # "None" /\ k # "max_tokens"}
    IN  [k \in DOMAIN base \cup given |-> IF k \in given THEN kw[k] ELSE base[k]]

\* lines 16-33: the payload of the request
RequestPayload(prompt_text, system_prompt, model, kw) ==
    LET base == [k \in {"model", "prompt", "stream"} \cup Options |->
                    CASE k = "model"  -> model
                      [] k = "prompt" -> system_prompt \o "\n" \o prompt_text
                      [] k = "stream" -> "False"
                      [] k = "num_predict" ->
                            DictGet(kw, "num_predict",
                                    DictGet(kw, "max_tokens", "512"))
                      [] OTHER        -> DictGet(kw, k, OptionDefaults[k])]
        given == {k \in DOMAIN kw : kw[k] # "None" /\ k # "max_tokens"}
    IN  [k \in DOMAIN base \cup given |-> IF k \in given THEN kw[k] ELSE base[k]]

\* generate is called with some keyword arguments
InitGenerate ==
    /\ config = NoConfig
    /\ InitLocals
    /\ loader = "unloaded"
    /\ lk = NoLookup
    /\ rl = NoReload
    /\ LLAMA_INDEX_AVAILABLE = TRUE
    /\ docs_dir = {}
    /\ INDEX_DIR = NoIndex
    /\ api = NoResponse
    /\ kwargs \in Kwargs
    /\ payload = <<>>
    /\ source_list = <<>>
    /\ markdown = ""

\* lines 16-33
BuildPayload ==
    /\ payload = <<>>
    /\ payload' = RequestPayload(query, FallbackSystemPrompt, "gemma3:4b", kwargs)
    /\ UNCHANGED <<config, locals, sched, store>>
    /\ UNCHANGED <<LLAMA_INDEX_AVAILABLE, docs_dir, INDEX_DIR, api, kwargs,
                   source_list, markdown>>

NextGenerate == BuildPayload

SpecGenerate == InitGenerate /\ [][NextGenerate]_vars

-----------------------------------------------------------------------------
(* sources_to_markdown of app/rag.py on its own, for every source list *)

\* the source labels: file names, the label of a passage without metadata,
\* and the empty label
SourceLabels == {"a.pdf", "b.txt", "Unknown", ""}

SourceLists == UNION {[1..n -> SourceLabels] : n \in 0..MaxSources}

\* sources_to_markdown is called with some source list
InitMarkdown ==
    /\ config = NoConfig
    /\ InitLocals
    /\ loader = "unloaded"
    /\ lk = NoLookup
    /\ rl = NoReload
    /\ LLAMA_INDEX_AVAILABLE = TRUE
    /\ docs_dir = {}
    /\ INDEX_DIR = NoIndex
    /\ api = NoResponse
    /\ kwargs = <<>>
    /\ payload = <<>>
    /\ source_list \in SourceLists
    /\ markdown = ""

\* rag.py:56-68
Render ==
    /\ markdown = ""
    /\ markdown' = sources_to_markdown(source_list)
    /\ UNCHANGED <<config, locals, sched, store>>
    /\ UNCHANGED <<LLAMA_INDEX_AVAILABLE, docs_dir, INDEX_DIR, api, kwargs,
                   payload, source_list>>

NextMarkdown == Render

SpecMarkdown == InitMarkdown /\ [][NextMarkdown]_vars

-----------------------------------------------------------------------------
(* Vocabulary of the properties *)

\* the step list the configuration holds
ConfiguredSteps ==
    IF PipelineStepsError(config) = "" THEN get_pipeline_steps(config) ELSE <<>>

\* the requests that are agent calls of steps, in the order they were sent
AgentCalls == SelectSeq(calls, LAMBDA c : c["via"] # "fallback")
FallbackCalls == SelectSeq(calls, LAMBDA c : c["via"] = "fallback")

\* the agent call of step j was made and has returned
AgentCallReturned(j) ==
    \E n \in 1..Len(AgentCalls) :
        /\ AgentCalls[n]["step_number"] = j
        /\ AgentCalls[n]["outcome"] = "returned"

Returned == pc = "done"
Terminated == pc \in {"done", "raised"}

\* a step failed: the loop index stays at the failing step, number i + 1
StepFailed == "steps" \in bound /\ exc # ""

IsSuccess(r) == r["pipeline_complete"]
IsPartialFailure(r) == ~r["pipeline_complete"] /\ r["partial_success"]
IsTotalFailure(r) == ~r["pipeline_complete"] /\ ~r["partial_success"]

\* the keys a template reads that earlier steps write
UpstreamKeys(agent_name) ==
    DeclaredInputs(agent_name) \cap {"breakdown", "critique", "synthesis"}

\* the completed steps before call j that wrote key
WritersBefore(j, key) ==
    {m \in 1..(j - 1) : DeclaredOutputKey(ConfiguredSteps[m]["agent"]) = key}

Max(S) == CHOOSE m \in S : \A n \in S : n <= m

-----------------------------------------------------------------------------
(* C1 *)

\* C1: every invocation of run_pipeline ends by returning a result
\* dictionary; no exception leaves run_pipeline, wherever the failure occurs
\* (here: reading the step list from the configuration).
C1_NeverRaises == pc # "raised" /\ raised = ""

-----------------------------------------------------------------------------
(* C2 *)

\* C2: when the invocation has ended and the agent call of every configured
\* step was made and returned, the result is the Success outcome and
\* debug_steps has as many entries as the configuration has steps.
C2_AllStepsSucceed ==
    (/\ Terminated
     /\ "pipeline" \in DOMAIN config
     /\ \A j \in 1..Len(ConfiguredSteps) : AgentCallReturned(j))
    => /\ Returned
       /\ IsSuccess(result)
       /\ "partial_success" \notin DOMAIN result
       /\ "error" \notin DOMAIN result
       /\ Len(result["debug_steps"]) = Len(ConfiguredSteps)

C2_Witness ==
    /\ Returned
    /\ Len(ConfiguredSteps) = MaxSteps
    /\ \A j \in 1..MaxSteps : AgentCallReturned(j)
    /\ IsSuccess(result)
    /\ Len(result["debug_steps"]) = MaxSteps

-----------------------------------------------------------------------------
(* C3 *)

\* C3: when step k > 1 is the step that fails (k = i + 1), a fallback call
\* that returns gives PartialFailure whose debug_steps are exactly the k - 1
\* completed steps, and a fallback call that raises gives TotalFailure.
C3_LaterStepFails ==
    (Returned /\ StepFailed /\ i >= 1)
    => /\ Len(FallbackCalls) = 1
       /\ FallbackCalls[1]["outcome"] \in {"returned", "raised"}
       /\ FallbackCalls[1]["outcome"] = "returned" =>
             /\ IsPartialFailure(result)
             /\ Len(result["debug_steps"]) = i
             /\ \A j \in 1..i :
                   /\ AgentCallReturned(j)
                   /\ result["debug_steps"][j]["step_number"] = j
                   /\ result["debug_steps"][j]["name"] = ConfiguredSteps[j]["name"]
                   /\ result["debug_steps"][j]["output"] = Reply(j)
       /\ FallbackCalls[1]["outcome"] = "raised" => IsTotalFailure(result)

C3_Witness ==
    /\ Returned /\ StepFailed /\ i = 2
    /\ Len(AgentCalls) = 3
    /\ AgentCalls[3]["outcome"] = "raised"
    /\ FallbackCalls[1]["outcome"] = "returned"
    /\ IsPartialFailure(result)
    /\ Len(result["debug_steps"]) = 2

-----------------------------------------------------------------------------
(* C4 *)

\* C4: when the first configured step is the step that fails, the result is
\* TotalFailure, with no completed step in it; no fallback call is made, so
\* what it would have answered changes nothing.
C4_FirstStepFails ==
    (Returned /\ StepFailed /\ i = 0)
    => /\ IsTotalFailure(result)
       /\ result["debug_steps"] = <<>>
       /\ FallbackCalls = <<>>

C4_Witness ==
    /\ Returned /\ StepFailed /\ i = 0
    /\ Len(AgentCalls) = 1
    /\ AgentCalls[1]["outcome"] = "raised"
    /\ IsTotalFailure(result)

-----------------------------------------------------------------------------
(* C5 *)

\* C5: in every returned result, TotalFailure included, debug_steps holds
\* every step that completed before the failure.
C5_LogNeverDropped == Returned => result["debug_steps"] = steps

-----------------------------------------------------------------------------
(* C6 *)

\* C6: agents are invoked one step at a time: the j-th agent call is that of
\* step j, the call of step j + 1 is sent only when the call of step j has
\* returned and its output is in the context, and once a step has failed
\* (before, or in, its agent call) the invocation is out of the loop for
\* good, so no later agent is invoked.
C6_Sequential ==
    /\ \A j \in 1..Len(AgentCalls) : AgentCalls[j]["step_number"] = j
    /\ \A j \in 1..(Len(AgentCalls) - 1) :
          /\ AgentCalls[j]["outcome"] = "returned"
          /\ DeclaredOutputKey(ConfiguredSteps[j]["agent"]) \in DOMAIN ctx
          /\ \E m \in j..Len(steps) :
                ctx[DeclaredOutputKey(ConfiguredSteps[j]["agent"])] = Reply(m)
    /\ \A j \in 1..Len(AgentCalls) :
          AgentCalls[j]["outcome"] = "raised" => StepFailed /\ i + 1 = j
    /\ StepFailed =>
          /\ pc \in {"except", "fallback", "done"}
          /\ Len(AgentCalls) <= i + 1

C6_Witness ==
    /\ StepFailed
    /\ Returned
    /\ i = 1
    /\ Len(ConfiguredSteps) = MaxSteps
    /\ ~ConfiguredSteps[2]["required"]
    /\ Len(AgentCalls) = 2
    /\ AgentCalls[2]["outcome"] = "raised"

-----------------------------------------------------------------------------
(* C7 *)

\* C7: at most one fallback generation call is made, and one is made only
\* after a step failed with at least one step completed: none when all steps
\* succeed, none when the first step fails.
C7_OneFallback ==
    /\ Len(FallbackCalls) <= 1
    /\ FallbackCalls # <<>> =>
          /\ StepFailed
          /\ i >= 1
          /\ \A j \in 1..i : AgentCallReturned(j)
    /\ (Returned /\ StepFailed /\ i >= 1) => Len(FallbackCalls) = 1

C7_Witness ==
    /\ Returned
    /\ Len(FallbackCalls) = 1
    /\ FallbackCalls[1]["outcome"] = "raised"
    /\ i = 1

-----------------------------------------------------------------------------
(* C8 *)

\* C8: the j-th agent invoked is the agent of the j-th configured step,
\* whatever the depends_on lists hold, and a successful run has invoked them
\* all.
C8_ListOrder ==
    /\ Len(AgentCalls) <= Len(ConfiguredSteps)
    /\ \A j \in 1..Len(AgentCalls) :
          /\ AgentCalls[j]["via"] = ConfiguredSteps[j]["agent"]
          /\ AgentCalls[j]["step_name"] = ConfiguredSteps[j]["name"]
    /\ (Returned /\ IsSuccess(result)) => Len(AgentCalls) = Len(ConfiguredSteps)

\* both steps of a two-step list have been invoked at their place: the first
\* names the second, which had not run, and the second names a step that is
\* not configured
C8_Witness ==
    /\ Len(ConfiguredSteps) = 2
    /\ Len(AgentCalls) = 2
    /\ AgentCalls[2]["outcome"] = "returned"
    /\ ConfiguredSteps[1]["depends_on"] = <<ConfiguredSteps[2]["name"]>>
    /\ ConfiguredSteps[2]["depends_on"] # <<>>
    /\ \A j \in 1..2 :
          ConfiguredSteps[2]["depends_on"][1] # ConfiguredSteps[j]["name"]

-----------------------------------------------------------------------------
(* C9 *)

\* C9: every agent call of a critique, synthesis or report_formatter step
\* carries, in each upstream slot, the latest output written under that key
\* by an earlier step, and the literal "N/A" when no earlier step wrote it;
\* a step that fails without its agent having been invoked failed on its
\* agent or its description, never on an absent upstream key.
C9_MissingUpstream ==
    /\ \A j \in 1..Len(AgentCalls) :
          \A key \in UpstreamKeys(AgentCalls[j]["via"]) :
             AgentCalls[j]["prompt"][key] =
                IF WritersBefore(j, key) = {} THEN "N/A"
                ELSE Reply(Max(WritersBefore(j, key)))
    /\ (StepFailed /\ Len(AgentCalls) < i + 1) =>
          LET agent_name == ConfiguredSteps[i + 1]["agent"]
          IN  \/ agent_name \notin AGENT_MAP
              \/ AgentConfigError(config, agent_name) # ""
              \/ PromptError(get_agent_config(config, agent_name)) # ""

C9_Witness ==
    /\ Returned
    /\ IsSuccess(result)
    /\ Len(AgentCalls) = 2
    /\ AgentCalls[1]["via"] = "report_formatter"
    /\ AgentCalls[1]["prompt"]["breakdown"] = "N/A"
    /\ AgentCalls[1]["prompt"]["critique"] = "N/A"
    /\ AgentCalls[1]["prompt"]["synthesis"] = "N/A"
    /\ AgentCalls[2]["via"] = "synthesis"
    /\ AgentCalls[2]["prompt"]["breakdown"] = "N/A"

-----------------------------------------------------------------------------
(* C10 *)

SeedKeys == {"query", "context", "sources_md"}

KeysAfter(n) ==
    SeedKeys \cup {DeclaredOutputKey(ConfiguredSteps[j]["agent"]) : j \in 1..n}

\* C10: once seeded, the key set of the context is the three seed keys plus
\* the output keys of the steps completed so far, and no step of the
\* invocation removes a key.
C10_ContextKeys ==
    /\ [](("ctx" \in bound) => DOMAIN ctx = KeysAfter(Len(steps)))
    /\ [][DOMAIN ctx \subseteq DOMAIN ctx']_vars

C10_Witness ==
    /\ Len(steps) = MaxSteps
    /\ Cardinality(DOMAIN ctx) = 3 + MaxSteps

-----------------------------------------------------------------------------
(* C11 *)

\* the loop has taken up step j: it is at j past the agent lookup, it failed
\* at j, or it is beyond j
TakenUp(j) ==
    \/ i >= j
    \/ i + 1 = j /\ (pc \in {"run", "calling"} \/ StepFailed)

\* C11: a step whose agent id is none of decomposer, critique, synthesis and
\* report_formatter, and whose agent is defined (with its description) in the
\* agents section, is sent to the model server with the generic template when
\* the loop takes it up, and when that call has returned the step is in the
\* log and its output is in the context under "<agent id>_output".
C11_GenericAgentRuns ==
    \A j \in 1..Len(ConfiguredSteps) :
       LET agent_name == ConfiguredSteps[j]["agent"]
       IN  (/\ agent_name \notin {"decomposer", "critique", "synthesis",
                                  "report_formatter"}
            /\ AgentConfigError(config, agent_name) = ""
            /\ PromptError(get_agent_config(config, agent_name)) = ""
            /\ TakenUp(j)
            /\ pc # "run")
           => /\ Len(AgentCalls) >= j
              /\ AgentCalls[j]["prompt"]["template"] = "generic"
              /\ AgentCalls[j]["outcome"] = "returned" =>
                    /\ Len(steps) >= j
                    /\ (agent_name \o "_output") \in DOMAIN ctx

-----------------------------------------------------------------------------
(* C12 *)

\* str(e) of the exception a step raises before its agent is called
PreCallFailure(step) ==
    IF step["agent"] \notin AGENT_MAP THEN KeyErrorStr(step["agent"])
    ELSE IF AgentConfigError(config, step["agent"]) # ""
    THEN AgentConfigError(config, step["agent"])
    ELSE PromptError(get_agent_config(config, step["agent"]))

\* C12: when step k = i + 1 is the step that failed (the steps before it
\* completed, its own call raised or was never made), the error of the
\* returned PartialFailure or TotalFailure is "Pipeline failed at step k: "
\* followed by the message of that step's failure, also when the fallback
\* call raised afterwards.
C12_ErrorNamesStep ==
    (Returned /\ StepFailed)
    => /\ \A j \in 1..i : AgentCallReturned(j)
       /\ ~AgentCallReturned(i + 1)
       /\ IF Len(AgentCalls) = i + 1
          THEN AgentCalls[i + 1]["outcome"] = "raised" /\ exc \in GenerateErrors
          ELSE exc = PreCallFailure(ConfiguredSteps[i + 1])
       /\ ~IsSuccess(result)
       /\ result["error"] =
             "Pipeline failed at step " \o ToString(i + 1) \o ": " \o exc

\* step 2 failed on a refused connection and the fallback call raised too
C12_Witness ==
    /\ Returned /\ StepFailed /\ i = 1
    /\ Len(FallbackCalls) = 1
    /\ FallbackCalls[1]["outcome"] = "raised"
    /\ IsTotalFailure(result)
    /\ result["error"] =
          "Pipeline failed at step 2: Could not connect to Ollama server at http://localhost:11434"

-----------------------------------------------------------------------------
(* C13 *)

\* the configured steps run by the report_formatter agent
FormatterSteps ==
    {j \in 1..Len(ConfiguredSteps) :
        ConfiguredSteps[j]["agent"] = "report_formatter"}

NoReportSentinel == "Pipeline completed but no final report generated"

\* C13: on Success the answer is the output of the last report_formatter step
\* of the list, which is what the context holds under final_report, and it
\* is the sentinel exactly when the list has no report_formatter step (the
\* empty list included).
C13_Answer ==
    (Returned /\ IsSuccess(result))
    => /\ ("final_report" \in DOMAIN ctx) <=> (FormatterSteps # {})
       /\ FormatterSteps # {} =>
             /\ result["answer"] = ctx["final_report"]
             /\ result["answer"] = steps[Max(FormatterSteps)]["output"]
             /\ result["answer"] = Reply(Max(FormatterSteps))
       /\ (result["answer"] = NoReportSentinel) <=> (FormatterSteps = {})

\* two report_formatter steps completed, then another step: the answer is
\* the output of the second
C13_Witness ==
    /\ Returned
    /\ IsSuccess(result)
    /\ FormatterSteps = {1, 2}
    /\ Len(steps) = 3
    /\ result["answer"] = Reply(2)

-----------------------------------------------------------------------------
(* C14 *)

\* the source labels of what the retriever returned, in its order
RetrievedLabels == [n \in 1..Len(passages) |-> passages[n]["source"]]

\* C14: from the retrieval on, sources holds the source labels of the
\* retrieved passages in retrieval order, and every returned result, whatever
\* the outcome, carries exactly that list.
C14_Sources ==
    /\ ("sources" \in bound) => sources = RetrievedLabels
    /\ Returned => result["sources"] = RetrievedLabels

\* a fallback that raised after one completed step, with two passages
\* retrieved, the unlabelled one first
C14_Witness ==
    /\ Returned
    /\ IsTotalFailure(result)
    /\ Len(steps) = 1
    /\ Len(passages) = 2
    /\ result["sources"] = <<"Unknown", "a.pdf">>

-----------------------------------------------------------------------------
(* C15 *)

\* C15: every returned result has answer, sources, debug_steps and
\* pipeline_complete; pipeline_complete is true exactly when every configured
\* step completed (its agent call returned and it is in the log), and the
\* result has an error exactly when pipeline_complete is false.
C15_ResultShape ==
    Returned
    => /\ {"answer", "sources", "debug_steps", "pipeline_complete"}
             \subseteq DOMAIN result
       /\ result["pipeline_complete"] \in BOOLEAN
       /\ result["pipeline_complete"] <=>
             /\ Len(steps) = Len(ConfiguredSteps)
             /\ \A j \in 1..Len(ConfiguredSteps) : AgentCallReturned(j)
       /\ ("error" \in DOMAIN result) <=> ~result["pipeline_complete"]

\* a PartialFailure: two of three steps completed, the result has its error
C15_Witness ==
    /\ Returned
    /\ Len(ConfiguredSteps) = 3
    /\ Len(steps) = 2
    /\ IsPartialFailure(result)
    /\ "error" \in DOMAIN result

-----------------------------------------------------------------------------
(* C16 *)

\* the agent calls that have returned
ReturnedCalls == SelectSeq(AgentCalls, LAMBDA c : c["outcome"] = "returned")

\* C16: at every point the step log holds one entry per completed step, in
\* execution order: entry j has step_number j, the name and the agent of the
\* j-th configured step and the output of its call; a step of the invocation
\* only appends to the log; and the debug_steps of a returned Success or
\* PartialFailure is the log.
C16_StepLog ==
    /\ [](/\ Len(steps) = Len(ReturnedCalls)
          /\ \A j \in 1..Len(steps) :
                /\ steps[j]["step_number"] = j
                /\ steps[j]["name"] = ConfiguredSteps[j]["name"]
                /\ steps[j]["agent_name"] = ConfiguredSteps[j]["agent"]
                /\ steps[j]["output"] = Reply(j)
                /\ ReturnedCalls[j]["step_number"] = j)
    /\ [][/\ Len(steps') >= Len(steps)
          /\ SubSeq(steps', 1, Len(steps)) = steps]_vars
    /\ []((Returned /\ (IsSuccess(result) \/ IsPartialFailure(result)))
             => result["debug_steps"] = steps)

\* a PartialFailure returned with the two steps that completed
C16_Witness ==
    /\ Returned
    /\ IsPartialFailure(result)
    /\ Len(result["debug_steps"]) = 2
    /\ result["debug_steps"][2]["step_number"] = 2
    /\ result["debug_steps"][2]["agent_name"] = ConfiguredSteps[2]["agent"]

-----------------------------------------------------------------------------
(* C17 *)

\* C17: when the retriever returned no passages the context is seeded with
\* context "" and sources_md "No sources available", the returned sources
\* are empty, and the steps are invoked as configured, with an empty context
\* slot: a step fails only on its configuration or in its agent call, no
\* step is skipped, and a run in which no step failed has invoked them all.
C17_EmptyRetrieval ==
    ("passages" \in bound /\ passages = <<>>)
    => /\ context = ""
       /\ ctx["context"] = ""
       /\ ctx["sources_md"] = "No sources available"
       /\ ctx["query"] = query
       /\ Returned => result["sources"] = <<>>
       /\ \A j \in 1..Len(AgentCalls) :
             /\ AgentCalls[j]["step_number"] = j
             /\ "context" \in DeclaredInputs(AgentCalls[j]["via"])
                   => AgentCalls[j]["prompt"]["context"] = ""
             /\ "sources_md" \in DeclaredInputs(AgentCalls[j]["via"])
                   => AgentCalls[j]["prompt"]["sources_md"] = "No sources available"
       /\ StepFailed =>
             IF Len(AgentCalls) = i + 1
             THEN AgentCalls[i + 1]["outcome"] = "raised"
             ELSE /\ PreCallFailure(ConfiguredSteps[i + 1]) # ""
                  /\ exc = PreCallFailure(ConfiguredSteps[i + 1])
       /\ (Returned /\ ~StepFailed) =>
             /\ Len(AgentCalls) = Len(ConfiguredSteps)
             /\ IsSuccess(result)

\* nothing retrieved, and all the steps of a longest list invoked, the
\* report_formatter among them
C17_Witness ==
    /\ Returned
    /\ passages = <<>>
    /\ IsSuccess(result)
    /\ result["sources"] = <<>>
    /\ Len(AgentCalls) = MaxSteps
    /\ AgentCalls[1]["via"] = "report_formatter"
    /\ AgentCalls[1]["prompt"]["sources_md"] = "No sources available"

-----------------------------------------------------------------------------
(* C18 *)

\* what the locals f of an invocation hold when only that invocation wrote
\* them: a log with one entry per agent call of its own that returned, a
\* context of the seed of its own retrieval plus the outputs of its own
\* completed steps, and, once returned, a result made of its own sources,
\* context, log and error message
OwnFrame(f) ==
    LET returned == SelectSeq(f["calls"], LAMBDA c :
                        c["via"] # "fallback" /\ c["outcome"] = "returned")
        labels == [n \in 1..Len(f["passages"]) |-> f["passages"][n]["source"]]
        n == Len(f["steps"])
        key(j) == DeclaredOutputKey(ConfiguredSteps[j]["agent"])
    IN  /\ n = Len(returned)
        /\ \A j \in 1..n :
              /\ f["steps"][j]["step_number"] = j
              /\ f["steps"][j]["name"] = ConfiguredSteps[j]["name"]
              /\ f["steps"][j]["output"] = Reply(j)
        /\ IF "ctx" \in f["bound"]
           THEN /\ DOMAIN f["ctx"] = KeysAfter(n)
                /\ f["ctx"]["query"] = query
                /\ f["ctx"]["context"] = f["context"]
                /\ f["ctx"]["sources_md"] = sources_to_markdown(labels)
                /\ \A j \in 1..n :
                      f["ctx"][key(j)] =
                         Reply(Max({m \in 1..n : key(m) = key(j)}))
           ELSE DOMAIN f["ctx"] = {} /\ n = 0
        /\ f["pc"] = "done" =>
              \/ f["result"] = SuccessResult(f["ctx"], labels, f["steps"])
              \/ f["result"] = PartialResult(Reply(Len(f["calls"])), labels,
                                             f["steps"], f["error_msg"])
              \/ f["result"] = FailureResult(labels, f["error_msg"])

\* C18: with two invocations interleaved in any way under one configuration,
\* the context, the step log and the result of each, running or suspended,
\* are at every point those of its own retrieval and its own agent calls,
\* and every step either switches the two invocations, leaving the locals of
\* both as they are, or leaves the suspended invocation untouched.
C18_Isolation ==
    /\ [](OwnFrame(Frame) /\ OwnFrame(other))
    /\ [][\/ other' = other
          \/ other' = Frame /\ Frame' = other]_vars

\* both invocations are in the middle of an agent call, one at its second
\* step and one at its first, with different retrievals
C18_Witness ==
    /\ pc = "calling"
    /\ other["pc"] = "calling"
    /\ Len(steps) = 1
    /\ Len(other["steps"]) = 0
    /\ passages # other["passages"]
    /\ "breakdown" \in DOMAIN ctx
    /\ "breakdown" \notin DOMAIN other["ctx"]

-----------------------------------------------------------------------------
(* C19 *)

\* what a lookup gives when it runs, alone, on the configuration cfg: the
\* value it returns or the class of the exception it raises
AnswerFrom(cfg, op) ==
    IF op["name"] = "get_pipeline_steps"
    THEN IF PipelineStepsError(cfg) # "" THEN [raised |-> "KeyError"]
         ELSE [value |-> get_pipeline_steps(cfg)]
    ELSE IF AgentConfigError(cfg, op["agent_name"]) # ""
         THEN [raised |-> "KeyError"]
         ELSE [value |-> get_agent_config(cfg, op["agent_name"])]

\* what the caller of a lookup got: the value, or the class of the exception
\* (without its message, which names the raw key when a reload came between
\* the tests and the return)
Given(answer) ==
    IF "value" \in DOMAIN answer THEN [value |-> answer["value"]]
    ELSE [raised |-> answer["raised"]]

-----------------------------------------------------------------------------
(* C20 *)

\* a document with an agents and a pipeline section
Usable(cfg) == {"agents", "pipeline"} \subseteq DOMAIN cfg

\* C20: config_loader is loaded only with a document that has its agents and
\* pipeline sections, so every configuration a lookup runs on has them.
C20_FailFast ==
    /\ loader = "loaded" => Usable(config)
    /\ lk["pc"] # "idle" => \A c \in lk["seen"] : Usable(c)

-----------------------------------------------------------------------------
(* C21 *)

\* the last call was retrieve
Retrieved == api["op"] = "retrieve"

\* C21: retrieve never raises to its caller, and it returns the empty
\* sequence when the indexing library is unavailable, when no index exists
\* and none can be built, when loading the index fails and rebuilding fails,
\* and when the index's retrieval call raises.
C21_RetrieveNeverRaises ==
    Retrieved =>
        LET unbuildable == ~api["works"] \/ docs_dir = {}
        IN  /\ api["raised"] = ""
            /\ ~LLAMA_INDEX_AVAILABLE => api["passages"] = <<>>
            /\ ~api["before"]["exists"] /\ unbuildable
                   => api["passages"] = <<>>
            /\ api["before"]["exists"] /\ ~api["loads"] /\ unbuildable
                   => api["passages"] = <<>>
            /\ api["found"]["raises"] => api["passages"] = <<>>

\* retrieve was called on a persisted index that loaded, and the retriever's
\* call raised
C21_Witness ==
    /\ Retrieved
    /\ LLAMA_INDEX_AVAILABLE
    /\ api["before"]["exists"]
    /\ api["loads"]
    /\ api["found"]["raises"]
    /\ api["passages"] = <<>>

-----------------------------------------------------------------------------
(* C22 *)

\* the positions in calls of the agent calls and of the fallback calls
AgentCallAt == {n \in 1..Len(calls) : calls[n]["via"] # "fallback"}
FallbackCallAt == {n \in 1..Len(calls) : calls[n]["via"] = "fallback"}

\* C22: no retry anywhere in a pipeline run.  Every request to the model
\* server is for a step later than every request before it, so that no step's
\* agent is invoked twice and no request is sent again after it failed; at
\* most one fallback request is sent, after every agent call; and a request
\* is sent only when every earlier one has returned or failed.
C22_NoRetry ==
    /\ \A m, n \in AgentCallAt :
          m < n => calls[m]["step_number"] < calls[n]["step_number"]
    /\ \A n \in AgentCallAt : calls[n]["step_number"] <= Len(pipeline_steps)
    /\ Cardinality(FallbackCallAt) <= 1
    /\ \A n \in FallbackCallAt : n = Len(calls)
    /\ \A n \in 1..(Len(calls) - 1) : calls[n]["outcome"] # "sent"

\* the invocation ended after an agent call failed and a later request was
\* sent
C22_Witness ==
    /\ Returned
    /\ \E n \in 1..(Len(calls) - 1) : calls[n]["outcome"] = "raised"

-----------------------------------------------------------------------------
(* C23 *)

\* generate has built its payload
PayloadBuilt == payload # <<>>

\* every supplied option carries the caller's value, and every option that
\* was not supplied (and that max_tokens does not stand for) its default
OptionsCarried ==
    /\ \A k \in Options \cap DOMAIN kwargs : payload[k] = kwargs[k]
    /\ \A k \in Options \ DOMAIN kwargs :
          \/ k = "num_predict" /\ "max_tokens" \in DOMAIN kwargs
          \/ payload[k] = OptionDefaults[k]

\* C23 as stated: in the payload, every generation option for which the
\* caller supplied a value carries the caller's value, every option the
\* caller did not supply carries its default, and a caller-supplied
\* max_tokens sets num_predict.
C23_CallerValuesWin ==
    PayloadBuilt =>
        /\ OptionsCarried
        /\ "max_tokens" \in DOMAIN kwargs
              => payload["num_predict"] = kwargs["max_tokens"]

\* C23 amended: in the payload, every generation option for which the caller
\* supplied a value carries the caller's value, every option the caller did
\* not supply carries its default, and a caller-supplied max_tokens sets
\* num_predict when the caller did not supply num_predict itself; max_tokens
\* is not a key of the payload.
C23_Payload ==
    PayloadBuilt =>
        /\ OptionsCarried
        /\ "max_tokens" \in DOMAIN kwargs /\ "num_predict" \notin DOMAIN kwargs
              => payload["num_predict"] = kwargs["max_tokens"]
        /\ "max_tokens" \notin DOMAIN payload

\* a payload was built for a caller that supplied max_tokens and a
\* temperature, and no num_predict
C23_Witness ==
    /\ PayloadBuilt
    /\ "max_tokens" \in DOMAIN kwargs
    /\ "num_predict" \notin DOMAIN kwargs
    /\ "temperature" \in DOMAIN kwargs
    /\ payload["num_predict"] = "100"
    /\ payload["top_k"] = "40"

-----------------------------------------------------------------------------
(* C24 *)

\* the declared output key of the n-th configured step
DeclaredKeyOf(n) == DeclaredOutputKey(ConfiguredSteps[n]["agent"])

\* C24 as stated: for every configured step sequence, each completed step
\* increases the number of keys of the context by exactly one, so that after
\* n completed steps the context has the three seed keys and n more, the
\* declared output keys of those steps.
C24_OneKeyPerStep ==
    ("ctx" \in bound) =>
        /\ Cardinality(DOMAIN ctx) = 3 + Len(steps)
        /\ \A n \in 1..Len(steps) : DeclaredKeyOf(n) \in DOMAIN ctx

\* C24 amended: each completed step writes its output under its declared
\* output key and leaves every other key as it was; the number of keys grows
\* by exactly one when no key of that name is in the context yet, and stays
\* the same when an earlier step of the same agent wrote it, whose output is
\* replaced.
C24_StepWritesItsKey ==
    [][Len(steps') = Len(steps) + 1 =>
         LET key == DeclaredKeyOf(Len(steps'))
         IN  /\ DOMAIN ctx' = DOMAIN ctx \cup {key}
             /\ ctx'[key] = steps'[Len(steps')]["output"]
             /\ \A k \in DOMAIN ctx \ {key} : ctx'[k] = ctx[k]
             /\ Cardinality(DOMAIN ctx') =
                   Cardinality(DOMAIN ctx) + (IF key \in DOMAIN ctx THEN 0 ELSE 1)
      ]_vars

\* two steps of the same agent completed: the second replaced the output of
\* the first
C24_Witness ==
    /\ Len(steps) = 2
    /\ DeclaredKeyOf(1) = DeclaredKeyOf(2)
    /\ Cardinality(DOMAIN ctx) = 4
    /\ ctx[DeclaredKeyOf(2)] = steps[2]["output"]

-----------------------------------------------------------------------------
(* C25 *)

\* sources_to_markdown has returned
Rendered == markdown # ""

\* line n of the rendering, as the claim words it
NumberedLine(n) ==
    IF source_list[n] \notin {"", "Unknown"}
    THEN ToString(n) \o ". **" \o source_list[n] \o "**"
    ELSE ToString(n) \o ". Unknown source"

\* the first n lines, each after the first preceded by a newline
RECURSIVE FirstLines(_)
FirstLines(n) ==
    IF n = 1 THEN NumberedLine(1)
    ELSE FirstLines(n - 1) \o "\n" \o NumberedLine(n)

\* C25: for every source list, sources_to_markdown returns "No sources
\* available" for the empty list, and otherwise one line per source in input
\* order, numbered from 1, "i. **<source>**" for a source that is non-empty
\* and not "Unknown" and "i. Unknown source" otherwise, joined by newlines;
\* so ["a.pdf", "Unknown"] gives "1. **a.pdf**\n2. Unknown source".
C25_Markdown ==
    [][/\ source_list = <<>> => markdown' = "No sources available"
       /\ source_list # <<>> => markdown' = FirstLines(Len(source_list))
       /\ source_list = <<"a.pdf", "Unknown">>
             => markdown' = "1. **a.pdf**\n2. Unknown source"
      ]_vars

\* a list of three sources was rendered, with a file name after an empty
\* label and an "Unknown" one
C25_Witness ==
    /\ Rendered
    /\ source_list = <<"", "Unknown", "b.txt">>
    /\ markdown = "1. Unknown source\n2. Unknown source\n3. **b.txt**"

-----------------------------------------------------------------------------
(* C26 *)

\* C26: after DELETE /api/files/{filename} answered success for a file while
\* other documents remain in the documents directory, the persisted index
\* does not hold that document, and a retrieve issued next returns no
\* passage whose source is the deleted file.
C26_DeletedLeavesIndex ==
    /\ /\ api["op"] = "delete"
       /\ "success" \in DOMAIN api["response"]
       /\ docs_dir # {}
       => api["filename"] \notin IndexDocs(INDEX_DIR)
    /\ /\ Retrieved
       /\ api["after"]["op"] = "delete"
       /\ api["after"]["filename"] \notin docs_dir
       /\ docs_dir # {}
       => \A n \in 1..Len(api["passages"]) :
             api["passages"][n]["source"] # api["after"]["filename"]

-----------------------------------------------------------------------------
(* C27 *)

\* C27: after POST /api/upload answered success for a file, the persisted
\* index holds the uploaded document and every document that it held before
\* the upload.
C27_UploadKeepsIndex ==
    api["op"] = "upload" /\ api["response"]["success"] =>
        /\ api["filename"] \in IndexDocs(INDEX_DIR)
        /\ api["before"] \subseteq IndexDocs(INDEX_DIR)

-----------------------------------------------------------------------------
(* C28 *)

\* the agent data of every request sent so far is the one that version d of
\* the configuration holds
AgentDataFrom(d) ==
    \A n \in AgentCallAt :
        LET agent_name == calls[n]["via"]
        IN  /\ AgentConfigError(d, agent_name) = ""
            /\ PromptError(get_agent_config(d, agent_name)) = ""
            /\ calls[n]["prompt"]["description"] =
                  get_agent_config(d, agent_name)["description"]
            /\ calls[n]["system_prompt"] = get_agent_prompt(d, agent_name)
            /\ calls[n]["parameters"] = get_agent_parameters(d, agent_name)

\* C28: within one invocation, under any interleaving with a configuration
\* reload, the agent description, system prompt and generation parameters
\* used at every step come from the configuration version that gave the
\* invocation its step list.
C28_OneVersion ==
    "pipeline_steps" \in bound =>
        \E d \in StoreDocs :
            /\ PipelineStepsError(d) = ""
            /\ get_pipeline_steps(d) = pipeline_steps
            /\ AgentDataFrom(d)

-----------------------------------------------------------------------------
(* C29 *)

\* C29: provided every call to the retriever and to the model server returns
\* or fails, an invocation with N configured steps reaches a terminal
\* outcome; the retriever is called once, before any request to the model
\* server, and at most N + 1 requests are sent: at most one per step and at
\* most one for the fallback.
C29_Terminates ==
    /\ (PipelineStepsError(config) = "") ~> Returned
    /\ [](/\ Returned => PipelineStepsError(config) = "" /\ "passages" \in bound
          /\ calls # <<>> => "passages" \in bound
          /\ Cardinality(AgentCallAt) <= Len(ConfiguredSteps)
          /\ Cardinality(FallbackCallAt) <= 1
          /\ Len(calls) <= Len(ConfiguredSteps) + 1)
    /\ [][pc' = "retrieve" => pc = "start"]_vars
    /\ [][pc = "retrieve" => pc' # "retrieve" /\ "passages" \notin bound]_vars
    /\ [][Returned => UNCHANGED vars]_vars

\* an invocation with MaxSteps configured steps ended after MaxSteps
\* requests: the last step's agent call failed, every earlier one returned
\* and the fallback request was sent
C29_Witness ==
    /\ Returned
    /\ Len(ConfiguredSteps) = MaxSteps
    /\ Len(calls) = MaxSteps + 1
    /\ Cardinality(FallbackCallAt) = 1

-----------------------------------------------------------------------------
(* C30 *)

\* C30: the index-status flags of the file API are true only when the index
\* operation succeeded: upload answers processed = true only if the uploaded
\* file was indexed, rebuild answers success = true only if an index was
\* built, delete answers index_updated = true only if the index was updated.
C30_FlagsTruthful ==
    /\ api["op"] = "upload" /\ api["response"]["processed"]
          => api["returned"] # None /\ api["filename"] \in IndexDocs(INDEX_DIR)
    /\ api["op"] = "rebuild" /\ api["response"]["success"]
          => api["returned"] # None
    /\ /\ api["op"] = "delete"
       /\ "index_updated" \in DOMAIN api["response"]
       /\ api["response"]["index_updated"]
       => api["returned"]

====
